---- MODULE Spec2Model ----
(***************************************************************************)
(* State-machine model of BoxLabeler (src/src/boxlabeler/annotator.py).    *)
(*                                                                         *)
(* Python floats are modelled as exact rationals <<n, d>> (d > 0, lowest   *)
(* terms); canvas coordinates are integers.  Text (class names, the text   *)
(* of the entry widget, the lines of classes.txt) is a sequence of         *)
(* one-character strings.  A label-file line is a sequence of tokens.      *)
(* The files of the disk are functions whose domain is the set of files    *)
(* that exist.  Every handler is one atomic step, as Tk's event loop runs  *)
(* it; a handler that returns or raises before it has changed anything     *)
(* leaves the state as it is.  Left out: the help overlay, the rubber-band *)
(* rectangle, the window title, the content of the CSV export, a cancelled *)
(* folder dialog, a failing write of classes.txt.                          *)
(***************************************************************************)
EXTENDS Integers, Sequences, FiniteSets, TLC

----------------------------------------------------------------------------
(* Exact rational arithmetic standing for Python float arithmetic.         *)

Abs(n) == IF n < 0 THEN -n ELSE n

RECURSIVE GCD(_, _)
GCD(a, b) == IF b = 0 THEN a ELSE GCD(b, a % b)

LCM(a, b) == (a \div GCD(a, b)) * b

\* n/d in lowest terms, d > 0
Rat(n, d) == LET g == GCD(Abs(n), d) IN <<n \div g, d \div g>>

I2R(n) == <<n, 1>>

RAdd(a, b) ==
    LET L == LCM(a[2], b[2])
    IN  Rat(a[1] * (L \div a[2]) + b[1] * (L \div b[2]), L)

RNeg(a) == <<-a[1], a[2]>>

RSub(a, b) == RAdd(a, RNeg(b))

RMul(a, b) ==
    LET g1 == GCD(Abs(a[1]), b[2])
        g2 == GCD(Abs(b[1]), a[2])
    IN  <<(a[1] \div g1) * (b[1] \div g2), (a[2] \div g2) * (b[2] \div g1)>>

\* division by a positive rational (scales, image sizes and 2 are positive)
RDiv(a, b) == RMul(a, <<b[2], b[1]>>)

RLt(a, b) ==
    LET L == LCM(a[2], b[2])
    IN  a[1] * (L \div a[2]) < b[1] * (L \div b[2])

RLe(a, b) == ~RLt(b, a)

RMin(a, b) == IF RLt(b, a) THEN b ELSE a

RMax(a, b) == IF RLt(a, b) THEN b ELSE a

RAbs(a) == <<Abs(a[1]), a[2]>>

RFloor(a) == a[1] \div a[2]

\* Python int(float): truncation toward zero
RTrunc(a) == IF a[1] >= 0 THEN a[1] \div a[2] ELSE -((-a[1]) \div a[2])

----------------------------------------------------------------------------
(* Text: str.lower, str.strip, str(int).                                   *)

UpperChars == <<"A","B","C","D","E","F","G","H","I","J","K","L","M",
                "N","O","P","Q","R","S","T","U","V","W","X","Y","Z">>
LowerChars == <<"a","b","c","d","e","f","g","h","i","j","k","l","m",
                "n","o","p","q","r","s","t","u","v","w","x","y","z">>
DigitChars == <<"0","1","2","3","4","5","6","7","8","9">>

LowerChar(c) ==
    IF \E i \in 1..Len(UpperChars) : UpperChars[i] = c
    THEN LowerChars[CHOOSE i \in 1..Len(UpperChars) : UpperChars[i] = c]
    ELSE c

\* str.lower()
Lower(s) == [i \in 1..Len(s) |-> LowerChar(s[i])]

IsSpace(c) == c = " "

\* str.strip(): drop leading and trailing whitespace
Strip(s) ==
    LET keep == {i \in 1..Len(s) : ~IsSpace(s[i])}
    IN  IF keep = {} THEN <<>>
        ELSE LET lo == CHOOSE i \in keep : \A j \in keep : i <= j
                 hi == CHOOSE i \in keep : \A j \in keep : j <= i
             IN  SubSeq(s, lo, hi)

RECURSIVE NatStr(_)
NatStr(n) == IF n < 10 THEN <<DigitChars[n + 1]>>
             ELSE NatStr(n \div 10) \o <<DigitChars[(n % 10) + 1]>>

\* str(int)
IntStr(n) == IF n < 0 THEN <<"-">> \o NatStr(-n) ELSE NatStr(n)

\* f"class_{class_id}"
PlaceholderName(class_id) == <<"c","l","a","s","s","_">> \o IntStr(class_id)

\* characters in code-point order, as sorted() and str comparison order them
Alphabet == <<" ", "-", ".">> \o DigitChars \o UpperChars \o <<"_">> \o LowerChars

CharCode(c) == CHOOSE i \in 1..Len(Alphabet) : Alphabet[i] = c

\* Python str "<" : lexicographic by code point
RECURSIVE StrLt(_, _)
StrLt(s, t) ==
    IF t = <<>> THEN FALSE
    ELSE IF s = <<>> THEN TRUE
    ELSE IF s[1] # t[1] THEN CharCode(s[1]) < CharCode(t[1])
    ELSE StrLt(Tail(s), Tail(t))

\* sorted(list of str)
RECURSIVE Sorted(_)
Sorted(S) ==
    IF S = {} THEN <<>>
    ELSE LET m == CHOOSE x \in S : \A y \in S \ {x} : StrLt(x, y)
         IN  <<m>> \o Sorted(S \ {m})

\* str.endswith(suffix)
EndsWith(s, suf) ==
    /\ Len(suf) <= Len(s)
    /\ SubSeq(s, Len(s) - Len(suf) + 1, Len(s)) = suf

\* os.path.splitext(name)[0]: the name up to its last dot (a leading dot is
\* part of the stem)
Stem(name) ==
    LET dots == {i \in 2..Len(name) : name[i] = "."}
    IN  IF dots = {} THEN name
        ELSE SubSeq(name, 1, (CHOOSE k \in dots : \A j \in dots : j <= k) - 1)

----------------------------------------------------------------------------
(* Program constants.                                                      *)

\* DEFAULT_CLASS_NAMES = {0: "object"}; a dict is a sequence of
\* [id, name] entries in insertion order
DEFAULT_CLASS_NAMES == << [id |-> 0, name |-> <<"o","b","j","e","c","t">>] >>

\* self.zoom_levels
zoom_levels ==
    << <<1, 20>>, <<3, 40>>, <<1, 10>>, <<3, 20>>, <<1, 5>>, <<1, 4>>,
       <<33, 100>>, <<1, 2>>, <<67, 100>>, <<3, 4>>, <<17, 20>>, <<1, 1>>,
       <<5, 4>>, <<3, 2>>, <<2, 1>>, <<3, 1>>, <<4, 1>>, <<5, 1>>,
       <<7, 1>>, <<10, 1>> >>

\* zoom_levels[i] with Python's 0-based index
ZoomLevel(i) == zoom_levels[i + 1]

\* the extensions _init_folder accepts
ImageExts ==
    { <<".","p","n","g">>, <<".","j","p","g">>, <<".","j","p","e","g">>,
      <<".","b","m","p">>, <<".","t","i","f">>, <<".","t","i","f","f">> }

----------------------------------------------------------------------------
(* Python values.                                                          *)

\* None / a value: an optional value is a sequence of length 0 or 1
None == <<>>
Some(v) == <<v>>

\* dict operations on a sequence of [id, name] entries (insertion order)
Keys(d) == {d[i].id : i \in DOMAIN d}

DictGet(d, k) == d[CHOOSE i \in DOMAIN d : d[i].id = k].name

\* d[k] = v: a new key is appended, an existing key keeps its position
DictSet(d, k, v) ==
    IF k \in Keys(d)
    THEN [i \in DOMAIN d |-> IF d[i].id = k THEN [id |-> k, name |-> v] ELSE d[i]]
    ELSE Append(d, [id |-> k, name |-> v])

\* sorted(d.keys())
RECURSIVE SortedInts(_)
SortedInts(S) ==
    IF S = {} THEN <<>>
    ELSE LET m == CHOOSE x \in S : \A y \in S : x <= y
         IN  <<m>> \o SortedInts(S \ {m})

\* max(d.keys())
MaxKey(d) == CHOOSE k \in Keys(d) : \A j \in Keys(d) : j <= k

----------------------------------------------------------------------------
(* The normalized label format.  A token of a label line is the text of an *)
(* integer ("int"), of a decimal number with six fractional digits ("dec", *)
(* v millionths), or any other word ("word").                              *)

IntTok(n) == [t |-> "int", v |-> n]
DecTok(m) == [t |-> "dec", v |-> m]
WordTok == [t |-> "word", v |-> 0]

\* the first k decimal digits of r/d (0 <= r < d), with the remainder
RECURSIVE FracDigits(_, _, _, _)
FracDigits(r, d, k, acc) ==
    IF k = 0 THEN <<acc, r>>
    ELSE FracDigits((r * 10) % d, d, k - 1, acc * 10 + ((r * 10) \div d))

\* f"{x:.6f}": x rounded to six decimals (round-half-even on the exact value)
Format6(x) ==
    LET ip == x[1] \div x[2]
        fd == FracDigits(x[1] % x[2], x[2], 6, 0)
        m0 == ip * 1000000 + fd[1]
        m  == IF 2 * fd[2] > x[2] THEN m0 + 1
              ELSE IF 2 * fd[2] = x[2] THEN m0 + (m0 % 2)
              ELSE m0
    IN  DecTok(m)

\* int(text) succeeds only on an integer literal
CanInt(tok) == tok.t = "int"

\* float(text) succeeds on integer and decimal literals
CanFloat(tok) == tok.t \in {"int", "dec"}

FloatOf(tok) == IF tok.t = "int" THEN I2R(tok.v) ELSE Rat(tok.v, 1000000)

\* one line of save_boxes: f"{cls} {x_center:.6f} {y_center:.6f} {w:.6f} {h:.6f}"
SaveLine(box, img_w, img_h) ==
    LET x_center == RDiv(RDiv(RAdd(box[1], box[3]), I2R(2)), I2R(img_w))
        y_center == RDiv(RDiv(RAdd(box[2], box[4]), I2R(2)), I2R(img_h))
        w == RDiv(RSub(box[3], box[1]), I2R(img_w))
        h == RDiv(RSub(box[4], box[2]), I2R(img_h))
    IN  <<IntTok(box[5]), Format6(x_center), Format6(y_center), Format6(w), Format6(h)>>

\* the lines save_boxes writes to <stem>.txt
SaveLines(bx, img_w, img_h) == [i \in DOMAIN bx |-> SaveLine(bx[i], img_w, img_h)]

\* a loader that reads the first two numbers as the top-left corner
\* instead of the center
LoadBoxFromCorner(parts, img_w, img_h) ==
    LET class_id == parts[1].v
        x1 == RMul(FloatOf(parts[2]), I2R(img_w))
        y1 == RMul(FloatOf(parts[3]), I2R(img_h))
        w == RMul(FloatOf(parts[4]), I2R(img_w))
        h == RMul(FloatOf(parts[5]), I2R(img_h))
    IN  <<x1, y1, RAdd(x1, w), RAdd(y1, h), class_id>>

\* the box _load_existing_labels builds from a 5-token line
LoadBox(parts, img_w, img_h) ==
    LET class_id == parts[1].v
        x_center == RMul(FloatOf(parts[2]), I2R(img_w))
        y_center == RMul(FloatOf(parts[3]), I2R(img_h))
        w == RMul(FloatOf(parts[4]), I2R(img_w))
        h == RMul(FloatOf(parts[5]), I2R(img_h))
        x1 == RSub(x_center, RDiv(w, I2R(2)))
        y1 == RSub(y_center, RDiv(h, I2R(2)))
        x2 == RAdd(x_center, RDiv(w, I2R(2)))
        y2 == RAdd(y_center, RDiv(h, I2R(2)))
    IN  <<x1, y1, x2, y2, class_id>>

\* the loop of _load_existing_labels over the lines of an existing file:
\* a line without exactly 5 tokens is skipped; a 5-token line that int() or
\* float() rejects raises inside the try, which ends the loop
RECURSIVE LoadLines(_, _, _, _, _)
LoadLines(lines, bx, cn, img_w, img_h) ==
    IF lines = <<>> THEN [boxes |-> bx, class_names |-> cn]
    ELSE LET parts == Head(lines)
         IN  IF Len(parts) # 5
             THEN LoadLines(Tail(lines), bx, cn, img_w, img_h)
             ELSE IF ~CanInt(parts[1]) \/ \E j \in 2..5 : ~CanFloat(parts[j])
             THEN [boxes |-> bx, class_names |-> cn]
             ELSE LET b == LoadBox(parts, img_w, img_h)
                      cn2 == IF b[5] \in Keys(cn) THEN cn
                             ELSE DictSet(cn, b[5], PlaceholderName(b[5]))
                  IN  LoadLines(Tail(lines), Append(bx, b), cn2, img_w, img_h)

----------------------------------------------------------------------------
(* The viewport transform and the render-cache key as functions.           *)

\* one axis of canvas_to_image: (c - offset) / scale
CanvasToImageAxis(c, offset, sc) == RDiv(RSub(I2R(c), offset), sc)

\* one axis of image_to_canvas: i * scale + offset
ImageToCanvasAxis(i, offset, sc) == RAdd(RMul(i, sc), offset)

\* the loop of _nearest_zoom_index from position i on
RECURSIVE NearestLoop(_, _, _, _)
NearestLoop(i, best_idx, best_diff, target_scale) ==
    IF i >= Len(zoom_levels) THEN best_idx
    ELSE LET diff == RAbs(RSub(ZoomLevel(i), target_scale))
         IN  IF RLt(diff, best_diff)
             THEN NearestLoop(i + 1, i, diff, target_scale)
             ELSE NearestLoop(i + 1, best_idx, best_diff, target_scale)

\* a snap that never exceeds the target: the largest zoom level not above
\* it, the smallest level when there is none
_nearest_zoom_index_below(target_scale) ==
    LET below == {i \in 0..(Len(zoom_levels) - 1) : RLe(ZoomLevel(i), target_scale)}
    IN  IF below = {} THEN 0 ELSE CHOOSE i \in below : \A j \in below : j <= i

_nearest_zoom_index(target_scale) ==
    NearestLoop(0, 0, RAbs(RSub(ZoomLevel(0), target_scale)), target_scale)

\* _fit_to_window that keeps the fit scale instead of the zoom level
\* nearest to it
_fit_to_window_unsnapped(winfo_w, winfo_h, w, h) ==
    LET cw == IF winfo_w < 10 THEN 1200 ELSE winfo_w
        ch == IF winfo_h < 10 THEN 750 ELSE winfo_h
        sx == Rat(cw, w)
        sy == Rat(ch, h)
        fit_scale == RMin(RMin(sx, sy), I2R(1))
        zi == _nearest_zoom_index(fit_scale)
        sc == fit_scale
    IN  [zoom_index |-> zi,
         scale |-> sc,
         offset_x |-> RDiv(RSub(I2R(cw), RMul(I2R(w), sc)), I2R(2)),
         offset_y |-> RDiv(RSub(I2R(ch), RMul(I2R(h), sc)), I2R(2))]

\* _fit_to_window for a canvas reporting winfo_w x winfo_h and an image w x h
_fit_to_window(winfo_w, winfo_h, w, h) ==
    LET cw == IF winfo_w < 10 THEN 1200 ELSE winfo_w
        ch == IF winfo_h < 10 THEN 750 ELSE winfo_h
        sx == Rat(cw, w)
        sy == Rat(ch, h)
        fit_scale == RMin(RMin(sx, sy), I2R(1))
        zi == _nearest_zoom_index(fit_scale)
        sc == ZoomLevel(zi)
    IN  [zoom_index |-> zi,
         scale |-> sc,
         offset_x |-> RDiv(RSub(I2R(cw), RMul(I2R(w), sc)), I2R(2)),
         offset_y |-> RDiv(RSub(I2R(ch), RMul(I2R(h), sc)), I2R(2))]

IMin(a, b) == IF a < b THEN a ELSE b
IMax(a, b) == IF a < b THEN b ELSE a

\* cache_key of display_image
CacheKey(winfo_w, winfo_h, sc, ox, oy, w, h) ==
    LET cw == IF winfo_w = 0 THEN 1200 ELSE winfo_w
        ch == IF winfo_h = 0 THEN 800 ELSE winfo_h
        vis_x1 == CanvasToImageAxis(0, ox, sc)
        vis_y1 == CanvasToImageAxis(0, oy, sc)
        vis_x2 == CanvasToImageAxis(cw, ox, sc)
        vis_y2 == CanvasToImageAxis(ch, oy, sc)
    IN  <<sc, IMax(0, RTrunc(vis_x1)), IMax(0, RTrunc(vis_y1)),
          IMin(w, RTrunc(vis_x2) + 1), IMin(h, RTrunc(vis_y2) + 1)>>

\* the render cache after display_image: <<_cached_scale, _cached_tk_image>>.
\* The bitmap is recorded by what it was made from.
display_image(cs, ctk, oimg, winfo_w, winfo_h, sc, ox, oy, w, h) ==
    LET key == CacheKey(winfo_w, winfo_h, sc, ox, oy, w, h)
    IN  IF cs # Some(key)
        THEN <<Some(key),
               IF key[4] - key[2] > 0 /\ key[5] - key[3] > 0
               THEN Some([image |-> oimg, key |-> key])
               ELSE None>>
        ELSE <<cs, ctk>>

----------------------------------------------------------------------------
(* The disk the sessions run on: five folders.   Directory listings and    *)
(* what the decoder makes of each image file do not change; label files    *)
(* and classes.txt do.                                                     *)

Folders == {"A", "B", "C", "D", "E"}

a_jpg == <<"a", ".", "j", "p", "g">>
b_PNG == <<"b", ".", "P", "N", "G">>
c_jpg == <<"c", ".", "j", "p", "g">>
p_png == <<"p", ".", "p", "n", "g">>
x_jpg == <<"x", ".", "j", "p", "g">>
y_png == <<"y", ".", "p", "n", "g">>
q_jpg == <<"q", ".", "j", "p", "g">>
q_png == <<"q", ".", "p", "n", "g">>
notes_txt == <<"n", "o", "t", "e", "s", ".", "t", "x", "t">>

\* os.listdir(folder), without the labels directory and classes.txt
ListDir(folder) ==
    CASE folder = "A" -> {c_jpg, notes_txt, a_jpg, b_PNG}
      [] folder = "B" -> {p_png}
      [] folder = "C" -> {y_png, x_jpg}
      [] folder = "D" -> {q_png, q_jpg}
      [] OTHER -> {notes_txt}

\* Image.open + load + auto_orient_image: the oriented size, or a failure
Decode(folder, name) ==
    CASE name = a_jpg -> [ok |-> TRUE, w |-> 200, h |-> 400]
      [] name = b_PNG -> [ok |-> TRUE, w |-> 6, h |-> 6]
      [] name = p_png -> [ok |-> TRUE, w |-> 1600, h |-> 1200]
      [] name = y_png -> [ok |-> TRUE, w |-> 9600, h |-> 6000]
      [] name = q_jpg -> [ok |-> TRUE, w |-> 200, h |-> 400]
      [] name = q_png -> [ok |-> TRUE, w |-> 200, h |-> 400]
      [] OTHER -> [ok |-> FALSE, w |-> 0, h |-> 0]

\* the image list _init_folder builds, for every folder of the disk
ImageLists ==
    [folder \in Folders |->
        Sorted({f \in ListDir(folder) : \E e \in ImageExts : EndsWith(Lower(f), e)})]

ScanImages(folder) == ImageLists[folder]

\* the canvas sizes winfo_width()/winfo_height() report in this model
CanvasSizes == {<<1200, 750>>}

\* _fit_to_window for every canvas size and every decodable image of the disk
FitTable ==
    [c \in CanvasSizes,
     n \in {x \in UNION {{<<f, y>> : y \in ListDir(f)} : f \in Folders} :
                Decode(x[1], x[2]).ok} |->
        _fit_to_window(c[1], c[2], Decode(n[1], n[2]).w, Decode(n[1], n[2]).h)]

\* os.path.splitext(name)[0] for every file name of the disk
Stems == [name \in UNION {ListDir(folder) : folder \in Folders} |-> Stem(name)]

----------------------------------------------------------------------------
(* State.                                                                  *)

VARIABLES
    fs_labels,          \* label files: <<labels dir, stem>> -> lines, for the files that exist
    fs_classes,         \* classes.txt: folder -> lines, for the folders that have one
    canvas_w, canvas_h, \* what canvas.winfo_width()/winfo_height() report
    image_folder, images, labels_dir,
    img_width, img_height, original_image,
    boxes, start_x, start_y, active_class, class_names,
    scale, offset_x, offset_y, zoom_index,
    pan_start,          \* pan_start_x, pan_start_y, pan_start_offset_x, pan_start_offset_y
    _redraw_pending, _cached_scale, _cached_tk_image,
    index,
    destroyed,          \* root.destroy() has been called
    load_pending,       \* the root.after(100, self.load_image) of __init__ has not fired yet
    early_events,       \* handlers run before that timer fired
    view_events,        \* pan and zoom events since the last image load
    idle_scheduled,     \* after_idle(self._do_redraw) callbacks waiting to run
    last                \* the handler that ran last

vars == <<fs_labels, fs_classes, canvas_w, canvas_h, image_folder, images,
          labels_dir, img_width, img_height, original_image, boxes, start_x,
          start_y, active_class, class_names, scale, offset_x, offset_y,
          zoom_index, pan_start, _redraw_pending, _cached_scale,
          _cached_tk_image, index, destroyed, load_pending, early_events,
          view_events, idle_scheduled, last>>

diskVars == <<fs_labels, fs_classes>>
envVars == <<canvas_w, canvas_h>>
folderVars == <<image_folder, images, labels_dir>>
imageVars == <<img_width, img_height, original_image>>
viewVars == <<scale, offset_x, offset_y, zoom_index>>
cacheVars == <<_cached_scale, _cached_tk_image>>
drawVars == <<start_x, start_y>>

----------------------------------------------------------------------------
(* Bounds of the model.                                                    *)

MaxBoxes == 1        \* boxes drawn into one store
MaxClasses == 3      \* entries of the class registry an add may reach
MaxViewEvents == 1   \* pan/zoom events per loaded image
MaxEarlyEvents == 1  \* handlers run before the first deferred load
MaxEmptyIndex == 1   \* how far next_image may push the index in an empty folder

----------------------------------------------------------------------------
(* Folder initialization.                                                  *)

\* the loop of _init_folder over the lines of classes.txt, from line i on
RECURSIVE ReadClassLines(_, _, _)
ReadClassLines(lines, i, cn) ==
    IF i > Len(lines) THEN cn
    ELSE LET name == Strip(lines[i])
         IN  ReadClassLines(lines, i + 1,
                            IF name # <<>> THEN DictSet(cn, i - 1, name) ELSE cn)

\* the lines _save_classes_file writes
ClassLines(cn) ==
    LET ks == SortedInts(Keys(cn))
    IN  [k \in DOMAIN ks |-> DictGet(cn, ks[k])]

\* the loop of _find_resume_index from position i on
RECURSIVE ResumeLoop(_, _, _, _)
ResumeLoop(i, imgs, dir, lab) ==
    IF i >= Len(imgs) THEN Len(imgs) - 1
    ELSE IF <<dir, Stems[imgs[i + 1]]>> \notin DOMAIN lab THEN i
    ELSE ResumeLoop(i + 1, imgs, dir, lab)

\* a scan that answers len(images) when every image has a label file
_find_resume_index_past_end(imgs, dir, lab) ==
    LET r == ResumeLoop(0, imgs, dir, lab)
    IN  IF \A i \in DOMAIN imgs : <<dir, Stems[imgs[i]]>> \in DOMAIN lab
        THEN Len(imgs)
        ELSE r

_find_resume_index(imgs, dir, lab) == ResumeLoop(0, imgs, dir, lab)

\* what _init_folder makes of a folder, given the registry and the disk
_init_folder(folder, cn, cls, lab) ==
    LET imgs == ScanImages(folder)
    IN  [image_folder |-> folder,
         images |-> imgs,
         labels_dir |-> folder,
         class_names |-> IF folder \in DOMAIN cls
                         THEN ReadClassLines(cls[folder], 1, <<>>)
                         ELSE cn,
         index |-> _find_resume_index(imgs, folder, lab)]

----------------------------------------------------------------------------
(* The state after main() has constructed BoxLabeler on a folder.          *)

\* "0 0.300000 0.300000 0.500000 0.500000"
ExampleLine ==
    <<IntTok(0), DecTok(300000), DecTok(300000), DecTok(500000), DecTok(500000)>>

\* "1 0.5 0.5 0.2": four tokens
ShortLine == <<IntTok(1), DecTok(500000), DecTok(500000), DecTok(200000)>>

\* "-1 0.500000 0.500000 0.200000 0.200000"
ForeignLine ==
    <<IntTok(-1), DecTok(500000), DecTok(500000), DecTok(200000), DecTok(200000)>>

\* "5 0.500000 0.500000 0.200000 0.200000"
Class5Line ==
    <<IntTok(5), DecTok(500000), DecTok(500000), DecTok(200000), DecTok(200000)>>

\* The disks a session may start on.
\* No label files, no classes.txt:
CleanDisk == [labels |-> <<>>, classes |-> <<>>]

\* folder A holds a hand-written classes.txt ("car", an empty line, "Car")
\* and an imported label file for a.jpg, folder B an empty classes.txt:
HandWrittenDisk ==
    [labels |-> (<<"A", <<"a">>>> :> <<ExampleLine, ShortLine, ForeignLine>>),
     classes |-> ("A" :> << <<"c","a","r">>, <<>>, <<"C","a","r">> >>)
                     @@ ("B" :> <<>>)]

\* folder A has a label file for each of its three images:
LabelledDisk ==
    [labels |-> (<<"A", <<"a">>>> :> <<ExampleLine>>)
                    @@ (<<"A", <<"b">>>> :> <<>>)
                    @@ (<<"A", <<"c">>>> :> <<>>),
     classes |-> <<>>]

\* a.jpg was labelled elsewhere with class 5, there is no classes.txt:
ForeignDisk ==
    [labels |-> (<<"A", <<"a">>>> :> <<Class5Line>>), classes |-> <<>>]

\* "car 0.500000 0.500000 0.200000 0.200000": five tokens, a class name
\* where the class ID belongs
NamedLine ==
    <<WordTok, DecTok(500000), DecTok(500000), DecTok(200000), DecTok(200000)>>

\* the label file of a.jpg was imported from a tool that writes class
\* names; its second line is well-formed:
ImportedDisk ==
    [labels |-> (<<"A", <<"a">>>> :> <<NamedLine, ExampleLine>>), classes |-> <<>>]

InitDisks == {CleanDisk, HandWrittenDisk, LabelledDisk, ForeignDisk}

\* the state after construction on one of the given disks and folders
Constructed(disks, folders) ==
    \E disk \in disks, folder \in folders, canvas \in CanvasSizes :
        LET f == _init_folder(folder, DEFAULT_CLASS_NAMES, disk.classes, disk.labels)
        IN  /\ fs_labels = disk.labels
            /\ fs_classes = disk.classes
            /\ canvas_w = canvas[1]
            /\ canvas_h = canvas[2]
            /\ image_folder = f.image_folder
            /\ images = f.images
            /\ labels_dir = f.labels_dir
            /\ class_names = f.class_names
            /\ index = f.index
            /\ img_width = 0
            /\ img_height = 0
            /\ original_image = None
            /\ boxes = <<>>
            /\ start_x = None
            /\ start_y = None
            /\ active_class = 0
            /\ scale = I2R(1)
            /\ offset_x = I2R(0)
            /\ offset_y = I2R(0)
            /\ zoom_index = 0
            /\ pan_start = None
            /\ _redraw_pending = FALSE
            /\ _cached_scale = None
            /\ _cached_tk_image = None
            /\ destroyed = FALSE
            /\ load_pending = TRUE
            /\ early_events = 0
            /\ view_events = 0
            /\ idle_scheduled = 0
            /\ last = "__init__"

Init == Constructed(InitDisks \cup {ImportedDisk}, Folders)

----------------------------------------------------------------------------
(* load_image.                                                             *)

\* a load that gives up at the first image it cannot decode
FirstLoadableGiveUp(i, imgs, folder) ==
    IF i >= Len(imgs) \/ Decode(folder, imgs[i + 1]).ok THEN i ELSE Len(imgs)

\* where the recursion of load_image over undecodable images ends
RECURSIVE FirstLoadable(_, _, _)
FirstLoadable(i, imgs, folder) ==
    IF i >= Len(imgs) THEN i
    ELSE IF Decode(folder, imgs[i + 1]).ok THEN i
    ELSE FirstLoadable(i + 1, imgs, folder)

\* _load_existing_labels on an empty store
_load_existing_labels(name, dir, cn, lab, w, h) ==
    IF <<dir, Stems[name]>> \notin DOMAIN lab
    THEN [boxes |-> <<>>, class_names |-> cn]
    ELSE LoadLines(lab[<<dir, Stems[name]>>], <<>>, cn, w, h)

\* a load that keeps the render cache of the image it replaces
StaleCache == <<_cached_scale, _cached_tk_image>>

\* the render cache load_image leaves before it opens the image file:
\* <<_cached_scale, _cached_tk_image>>
ResetCache == <<None, None>>

\* load_image with self.index = idx, on the image list, registry and label
\* files the caller has just produced
load_image(idx, imgs, folder, dir, cn, lab) ==
    IF imgs = <<>>
    THEN /\ index' = idx
         /\ class_names' = cn
         /\ UNCHANGED <<destroyed, boxes, drawVars, viewVars, cacheVars,
                        imageVars, view_events>>
    ELSE IF idx >= Len(imgs)
    THEN /\ index' = idx
         /\ class_names' = cn
         /\ destroyed' = TRUE
         /\ UNCHANGED <<boxes, drawVars, viewVars, cacheVars, imageVars,
                        view_events>>
    ELSE LET j == FirstLoadable(idx, imgs, folder)
         IN  IF j >= Len(imgs)
             THEN /\ index' = j
                  /\ class_names' = cn
                  /\ destroyed' = TRUE
                  /\ boxes' = <<>>
                  /\ start_x' = None
                  /\ start_y' = None
                  /\ scale' = I2R(1)
                  /\ offset_x' = I2R(0)
                  /\ offset_y' = I2R(0)
                  /\ _cached_scale' = ResetCache[1]
                  /\ _cached_tk_image' = ResetCache[2]
                  /\ view_events' = 0
                  /\ UNCHANGED <<zoom_index, imageVars>>
             ELSE LET name == imgs[j + 1]
                      d == Decode(folder, name)
                      fit == FitTable[<<canvas_w, canvas_h>>, <<folder, name>>]
                      ld == _load_existing_labels(name, dir, cn, lab, d.w, d.h)
                      disp == display_image(ResetCache[1], ResetCache[2],
                                            Some(<<folder, name>>),
                                            canvas_w, canvas_h, fit.scale,
                                            fit.offset_x, fit.offset_y, d.w, d.h)
                  IN  /\ index' = j
                      /\ UNCHANGED destroyed
                      /\ original_image' = Some(<<folder, name>>)
                      /\ img_width' = d.w
                      /\ img_height' = d.h
                      /\ start_x' = None
                      /\ start_y' = None
                      /\ zoom_index' = fit.zoom_index
                      /\ scale' = fit.scale
                      /\ offset_x' = fit.offset_x
                      /\ offset_y' = fit.offset_y
                      /\ boxes' = ld.boxes
                      /\ class_names' = ld.class_names
                      /\ _cached_scale' = disp[1]
                      /\ _cached_tk_image' = disp[2]
                      /\ view_events' = 0

\* A handler other than the deferred first load can run while the window
\* lives; the handlers that run before the first load are counted.
CanRun ==
    /\ ~destroyed
    /\ load_pending => early_events < MaxEarlyEvents

\* handler op ran and changed something
Ran(op) ==
    /\ early_events' = IF load_pending THEN early_events + 1 ELSE early_events
    /\ UNCHANGED load_pending
    /\ last' = op

\* the handler returned (or raised) before changing anything
Nothing == UNCHANGED vars

\* the callback of root.after(100, self.load_image)
DeferredLoad ==
    /\ ~destroyed
    /\ load_pending
    /\ load_pending' = FALSE
    /\ last' = "load_image"
    /\ load_image(index, images, image_folder, labels_dir, class_names, fs_labels)
    /\ UNCHANGED <<diskVars, envVars, folderVars, active_class, pan_start,
                   _redraw_pending, idle_scheduled, early_events>>

----------------------------------------------------------------------------
(* Persistence of the box store.                                           *)

\* What a write to disk can do: succeed; fail before the label file is
\* opened (makedirs or open raises, the file is as it was); fail after the
\* label file is written (the CSV write raises).
IOOutcomes == {"ok", "fail_open", "fail_csv"}

\* save_boxes: the label files afterwards, and whether it raised.  Dividing
\* by a zero image size raises after the file was opened for writing.
save_boxes(io) ==
    IF images = <<>>
    THEN [labels |-> fs_labels, raised |-> FALSE]
    ELSE LET path == <<labels_dir, Stems[images[index + 1]]>>
         IN  IF io = "fail_open"
             THEN [labels |-> fs_labels, raised |-> TRUE]
             ELSE IF boxes # <<>> /\ (img_width = 0 \/ img_height = 0)
             THEN [labels |-> (path :> <<>>) @@ fs_labels, raised |-> TRUE]
             ELSE [labels |-> (path :> SaveLines(boxes, img_width, img_height))
                                 @@ fs_labels,
                   raised |-> io = "fail_csv"]

----------------------------------------------------------------------------
(* Navigation, folder switch, quit.                                        *)

next_image(io) ==
    /\ CanRun
    /\ images = <<>> => index < MaxEmptyIndex
    /\ LET sv == save_boxes(io)
       IN  IF sv.raised /\ sv.labels = fs_labels
           THEN Nothing
           ELSE /\ Ran("next_image")
                /\ fs_labels' = sv.labels
                /\ IF sv.raised
                   THEN UNCHANGED <<index, class_names, destroyed, boxes,
                                    drawVars, viewVars, cacheVars, imageVars,
                                    view_events>>
                   ELSE load_image(index + 1, images, image_folder, labels_dir,
                                   class_names, sv.labels)
                /\ UNCHANGED <<fs_classes, envVars, folderVars, active_class,
                               pan_start, _redraw_pending, idle_scheduled>>

prev_image(io) ==
    /\ CanRun
    /\ LET sv == save_boxes(io)
       IN  IF index <= 0 \/ (sv.raised /\ sv.labels = fs_labels)
           THEN Nothing
           ELSE /\ Ran("prev_image")
                /\ fs_labels' = sv.labels
                /\ IF sv.raised
                   THEN UNCHANGED <<index, class_names, destroyed, boxes,
                                    drawVars, viewVars, cacheVars, imageVars,
                                    view_events>>
                   ELSE load_image(index - 1, images, image_folder,
                                   labels_dir, class_names, sv.labels)
                /\ UNCHANGED <<fs_classes, envVars, folderVars, active_class,
                               pan_start, _redraw_pending, idle_scheduled>>

\* _open_folder with the dialog answered by new_folder (a cancelled dialog
\* changes nothing)
_open_folder(new_folder, io) ==
    /\ CanRun
    /\ Ran("_open_folder")
    /\ LET sv == save_boxes(io)
           f == _init_folder(new_folder, class_names, fs_classes, sv.labels)
       IN  /\ fs_labels' = sv.labels
           /\ image_folder' = f.image_folder
           /\ images' = f.images
           /\ labels_dir' = f.labels_dir
           /\ IF f.images = <<>>
              THEN /\ index' = f.index
                   /\ class_names' = f.class_names
                   /\ UNCHANGED <<destroyed, boxes, drawVars, viewVars,
                                  cacheVars, imageVars, view_events>>
              ELSE load_image(f.index, f.images, f.image_folder, f.labels_dir,
                              f.class_names, sv.labels)
    /\ UNCHANGED <<fs_classes, envVars, active_class, pan_start,
                   _redraw_pending, idle_scheduled>>

\* a quit without the try/except: an exception of save_boxes leaves the
\* handler before root.destroy()
_quit_unguarded(io) ==
    /\ CanRun
    /\ Ran("_quit")
    /\ fs_labels' = save_boxes(io).labels
    /\ destroyed' = ~save_boxes(io).raised
    /\ UNCHANGED <<fs_classes, envVars, folderVars, imageVars, boxes, drawVars,
                   active_class, class_names, viewVars, pan_start,
                   _redraw_pending, cacheVars, index, view_events,
                   idle_scheduled>>

_quit(io) ==
    /\ CanRun
    /\ Ran("_quit")
    /\ fs_labels' = save_boxes(io).labels
    /\ destroyed' = TRUE
    /\ UNCHANGED <<fs_classes, envVars, folderVars, imageVars, boxes, drawVars,
                   active_class, class_names, viewVars, pan_start,
                   _redraw_pending, cacheVars, index, view_events,
                   idle_scheduled>>

----------------------------------------------------------------------------
(* Class management.                                                       *)

\* the dropdown selection "<cid>: <name>" parsed back by _on_class_selected;
\* the dropdown lists the registry (_refresh_class_dropdown follows every
\* change of it)
_on_class_selected(class_id) ==
    /\ CanRun
    /\ Ran("_on_class_selected")
    /\ class_id \in Keys(class_names)
    /\ active_class' = class_id
    /\ UNCHANGED <<diskVars, envVars, folderVars, imageVars, boxes, drawVars,
                   class_names, viewVars, pan_start, _redraw_pending,
                   cacheVars, index, destroyed, view_events, idle_scheduled>>

\* a lookup that compares names exactly
ExistingEntryExact(cn, name) ==
    LET hits == {i \in DOMAIN cn : cn[i].name = name}
    IN  IF hits = {} THEN 0 ELSE CHOOSE i \in hits : \A j \in hits : i <= j

\* the first registry entry, in dict order, whose name equals name
\* case-insensitively; 0 when there is none
ExistingEntry(cn, name) ==
    LET hits == {i \in DOMAIN cn : Lower(cn[i].name) = Lower(name)}
    IN  IF hits = {} THEN 0 ELSE CHOOSE i \in hits : \A j \in hits : i <= j

\* an ID allocator that counts the entries instead of taking max + 1
NextClassIdByCount(cn) == Len(cn)

\* next_id of _add_new_class
NextClassId(cn) == IF cn # <<>> THEN MaxKey(cn) + 1 ELSE 0

\* _add_new_class with the entry widget holding text
_add_new_class(text) ==
    /\ CanRun
    /\ LET name == Strip(text)
           hit == ExistingEntry(class_names, name)
       IN  IF name = <<>>
           THEN Nothing
           ELSE /\ Ran("_add_new_class")
                /\ IF hit # 0
                   THEN /\ active_class' = class_names[hit].id
                        /\ UNCHANGED <<class_names, fs_classes>>
                   ELSE /\ Len(class_names) < MaxClasses
                        /\ class_names' = DictSet(class_names,
                                                  NextClassId(class_names), name)
                        /\ active_class' = NextClassId(class_names)
                        /\ fs_classes' = (image_folder :> ClassLines(class_names'))
                                             @@ fs_classes
                /\ UNCHANGED <<fs_labels, envVars, folderVars, imageVars, boxes,
                               drawVars, viewVars, pan_start, _redraw_pending,
                               cacheVars, index, destroyed, view_events,
                               idle_scheduled>>

----------------------------------------------------------------------------
(* Redraw coalescing.                                                      *)

\* a request that schedules an idle callback every time
_request_redraw_always ==
    /\ _redraw_pending' = TRUE
    /\ idle_scheduled' = idle_scheduled + 1

_request_redraw ==
    /\ _redraw_pending' = TRUE
    /\ idle_scheduled' = IF _redraw_pending THEN idle_scheduled
                         ELSE idle_scheduled + 1

\* display_image on the state the handler leaves
Redisplay ==
    LET disp == display_image(_cached_scale, _cached_tk_image, original_image,
                              canvas_w, canvas_h, scale, offset_x, offset_y,
                              img_width, img_height)
    IN  /\ _cached_scale' = disp[1]
        /\ _cached_tk_image' = disp[2]

\* an idle callback that clears the flag and renders nothing
_do_redraw_blind ==
    /\ ~destroyed
    /\ idle_scheduled > 0
    /\ idle_scheduled' = idle_scheduled - 1
    /\ _redraw_pending' = FALSE
    /\ last' = "_do_redraw"
    /\ UNCHANGED <<diskVars, envVars, folderVars, imageVars, boxes, drawVars,
                   active_class, class_names, viewVars, pan_start, index,
                   destroyed, load_pending, early_events, view_events,
                   cacheVars>>

\* the idle callback
_do_redraw ==
    /\ ~destroyed
    /\ idle_scheduled > 0
    /\ idle_scheduled' = idle_scheduled - 1
    /\ _redraw_pending' = FALSE
    /\ Redisplay
    /\ last' = "_do_redraw"
    /\ UNCHANGED <<diskVars, envVars, folderVars, imageVars, boxes, drawVars,
                   active_class, class_names, viewVars, pan_start, index,
                   destroyed, load_pending, early_events, view_events>>

----------------------------------------------------------------------------
(* Scroll, zoom, pan.                                                      *)

sys_platform == "linux"

\* the pan step of _on_mousewheel and _on_shift_mousewheel
WheelStep(delta) ==
    IF sys_platform = "darwin" THEN delta * 2 ELSE (delta \div 120) * 40

\* the pan step of the Button-4/Button-5 handlers
ButtonStep(num) == IF num = 4 THEN 40 ELSE IF num = 5 THEN -40 ELSE 0

\* a handler that pans: offsets change, a redraw is requested
Pan(op, dx, dy) ==
    /\ CanRun
    /\ Ran(op)
    /\ view_events < MaxViewEvents
    /\ view_events' = view_events + 1
    /\ offset_x' = RAdd(offset_x, I2R(dx))
    /\ offset_y' = RAdd(offset_y, I2R(dy))
    /\ _request_redraw
    /\ UNCHANGED <<diskVars, envVars, folderVars, imageVars, boxes, drawVars,
                   active_class, class_names, scale, zoom_index, pan_start,
                   cacheVars, index, destroyed>>

_on_mousewheel(delta) == Pan("_on_mousewheel", 0, WheelStep(delta))

_on_shift_mousewheel(delta) == Pan("_on_shift_mousewheel", WheelStep(delta), 0)

_on_mousewheel_linux(num) == Pan("_on_mousewheel_linux", 0, ButtonStep(num))

_on_shift_mousewheel_linux(num) ==
    Pan("_on_shift_mousewheel_linux", ButtonStep(num), 0)

\* new_index of _zoom_step
ZoomTarget(zi, direction) == IMax(0, IMin(zi + direction, Len(zoom_levels) - 1))

\* the offset _zoom_step computes on one axis: c - i * scale', with i the
\* image coordinate under c before the step
ZoomOffset(c, offset, sc, new_sc) ==
    RSub(I2R(c), RMul(CanvasToImageAxis(c, offset, sc), new_sc))

\* a zoom step that keeps the centre of the canvas fixed instead of the
\* pointer
_zoom_step_centred(op, cx, cy, direction) ==
    /\ CanRun
    /\ view_events < MaxViewEvents
    /\ LET new_index == ZoomTarget(zoom_index, direction)
       IN  IF new_index = zoom_index
           THEN Nothing
           ELSE /\ Ran(op)
                /\ zoom_index' = new_index
                /\ scale' = ZoomLevel(new_index)
                /\ offset_x' = ZoomOffset(canvas_w \div 2, offset_x, scale,
                                          ZoomLevel(new_index))
                /\ offset_y' = ZoomOffset(canvas_h \div 2, offset_y, scale,
                                          ZoomLevel(new_index))
                /\ view_events' = view_events + 1
                /\ _request_redraw
                /\ UNCHANGED <<diskVars, envVars, folderVars, imageVars, boxes,
                               drawVars, active_class, class_names, pan_start,
                               cacheVars, index, destroyed>>

_zoom_step(op, cx, cy, direction) ==
    /\ CanRun
    /\ view_events < MaxViewEvents
    /\ LET new_index == ZoomTarget(zoom_index, direction)
       IN  IF new_index = zoom_index
           THEN Nothing
           ELSE /\ Ran(op)
                /\ zoom_index' = new_index
                /\ scale' = ZoomLevel(new_index)
                /\ offset_x' = ZoomOffset(cx, offset_x, scale, ZoomLevel(new_index))
                /\ offset_y' = ZoomOffset(cy, offset_y, scale, ZoomLevel(new_index))
                /\ view_events' = view_events + 1
                /\ _request_redraw
                /\ UNCHANGED <<diskVars, envVars, folderVars, imageVars, boxes,
                               drawVars, active_class, class_names, pan_start,
                               cacheVars, index, destroyed>>

_on_ctrl_mousewheel(x, y, delta) ==
    _zoom_step("_on_ctrl_mousewheel", x, y, IF delta > 0 THEN 1 ELSE -1)

_on_ctrl_mousewheel_linux(x, y, num) ==
    _zoom_step("_on_ctrl_mousewheel_linux", x, y, IF num = 4 THEN 1 ELSE -1)

on_middle_press(x, y) ==
    /\ CanRun
    /\ Ran("on_middle_press")
    /\ pan_start' = Some([x |-> x, y |-> y, offset_x |-> offset_x,
                          offset_y |-> offset_y])
    /\ UNCHANGED <<diskVars, envVars, folderVars, imageVars, boxes, drawVars,
                   active_class, class_names, viewVars, _redraw_pending,
                   cacheVars, index, destroyed, view_events, idle_scheduled>>

on_middle_drag(x, y) ==
    /\ CanRun
    /\ IF pan_start = None
       THEN Nothing
       ELSE /\ Ran("on_middle_drag")
            /\ view_events < MaxViewEvents
            /\ view_events' = view_events + 1
            /\ offset_x' = RAdd(pan_start[1].offset_x, I2R(x - pan_start[1].x))
            /\ offset_y' = RAdd(pan_start[1].offset_y, I2R(y - pan_start[1].y))
            /\ _request_redraw
            /\ UNCHANGED <<diskVars, envVars, folderVars, imageVars, boxes,
                           drawVars, active_class, class_names, scale,
                           zoom_index, pan_start, cacheVars, index, destroyed>>

on_middle_release ==
    /\ CanRun
    /\ IF pan_start = None
       THEN Nothing
       ELSE /\ Ran("on_middle_release")
            /\ pan_start' = None
            /\ UNCHANGED <<diskVars, envVars, folderVars, imageVars, boxes,
                           drawVars, active_class, class_names, viewVars,
                           _redraw_pending, cacheVars, index, destroyed,
                           view_events, idle_scheduled>>

----------------------------------------------------------------------------
(* Drawing, deleting and undoing boxes.                                    *)

on_button_press(x, y) ==
    /\ CanRun
    /\ Ran("on_button_press")
    /\ start_x' = Some(x)
    /\ start_y' = Some(y)
    /\ UNCHANGED <<diskVars, envVars, folderVars, imageVars, boxes,
                   active_class, class_names, viewVars, pan_start,
                   _redraw_pending, cacheVars, index, destroyed, view_events,
                   idle_scheduled>>

\* the corners of a drag without the clamp to the image
DragSpanUnclamped(s, e, offset, sc, size) ==
    LET i1 == CanvasToImageAxis(s, offset, sc)
        i2 == CanvasToImageAxis(e, offset, sc)
    IN  <<RMin(i1, i2), RMax(i1, i2)>>

\* the corners on_button_release computes on one axis from the press
\* coordinate s and the release coordinate e: <<low, high>>, clamped to
\* [0, size]
DragSpan(s, e, offset, sc, size) ==
    LET i1 == CanvasToImageAxis(s, offset, sc)
        i2 == CanvasToImageAxis(e, offset, sc)
    IN  <<RMax(I2R(0), RMin(i1, i2)), RMin(I2R(size), RMax(i1, i2))>>

\* a size test that lets a 2-pixel box pass
TooSmallBelowTwo(span) == RLt(RSub(span[2], span[1]), I2R(2))

\* "less than 3px in image space"
TooSmall(span) == RLt(RSub(span[2], span[1]), I2R(3))

on_button_release(x, y) ==
    /\ CanRun
    /\ Len(boxes) < MaxBoxes
    /\ IF start_x = None \/ start_y = None
       THEN Nothing
       ELSE LET xs == DragSpan(start_x[1], x, offset_x, scale, img_width)
                ys == DragSpan(start_y[1], y, offset_y, scale, img_height)
            IN  IF TooSmall(xs) \/ TooSmall(ys)
                THEN Nothing
                ELSE /\ Ran("on_button_release")
                     /\ boxes' = Append(boxes, <<xs[1], ys[1], xs[2], ys[2],
                                                 active_class>>)
                     /\ Redisplay
                     /\ UNCHANGED <<diskVars, envVars, folderVars, imageVars,
                                    drawVars, active_class, class_names,
                                    viewVars, pan_start, _redraw_pending,
                                    index, destroyed, view_events,
                                    idle_scheduled>>

\* box b contains the image point (px, py)
Contains(b, px, py) ==
    /\ RLe(b[1], px) /\ RLe(px, b[3])
    /\ RLe(b[2], py) /\ RLe(py, b[4])

\* a hit test that takes the box drawn on top: the last one containing the
\* point
HitIndexTopmost(bx, px, py) ==
    LET hits == {i \in DOMAIN bx : Contains(bx[i], px, py)}
    IN  IF hits = {} THEN 0 ELSE CHOOSE i \in hits : \A j \in hits : i >= j

\* the position on_right_click deletes at: the first box containing the
\* point, 0 when none does
HitIndex(bx, px, py) ==
    LET hits == {i \in DOMAIN bx : Contains(bx[i], px, py)}
    IN  IF hits = {} THEN 0 ELSE CHOOSE i \in hits : \A j \in hits : i <= j

\* list.pop(i), i counted from 1
RemoveAt(sq, i) == SubSeq(sq, 1, i - 1) \o SubSeq(sq, i + 1, Len(sq))

on_right_click(x, y) ==
    /\ CanRun
    /\ LET hit == HitIndex(boxes, CanvasToImageAxis(x, offset_x, scale),
                           CanvasToImageAxis(y, offset_y, scale))
       IN  IF boxes = <<>> \/ hit = 0
           THEN Nothing
           ELSE /\ Ran("on_right_click")
                /\ boxes' = RemoveAt(boxes, hit)
                /\ Redisplay
                /\ UNCHANGED <<diskVars, envVars, folderVars, imageVars,
                               drawVars, active_class, class_names, viewVars,
                               pan_start, _redraw_pending, index, destroyed,
                               view_events, idle_scheduled>>

\* an undo that removes the oldest box instead of the newest
undo_box_oldest ==
    /\ CanRun
    /\ IF boxes # <<>>
       THEN /\ Ran("undo_box")
            /\ boxes' = Tail(boxes)
            /\ Redisplay
            /\ UNCHANGED <<diskVars, envVars, folderVars, imageVars, drawVars,
                           active_class, class_names, viewVars, pan_start,
                           _redraw_pending, index, destroyed, view_events,
                           idle_scheduled>>
       ELSE Nothing

undo_box ==
    /\ CanRun
    /\ IF boxes # <<>>
       THEN /\ Ran("undo_box")
            /\ boxes' = SubSeq(boxes, 1, Len(boxes) - 1)
            /\ Redisplay
            /\ UNCHANGED <<diskVars, envVars, folderVars, imageVars, drawVars,
                           active_class, class_names, viewVars, pan_start,
                           _redraw_pending, index, destroyed, view_events,
                           idle_scheduled>>
       ELSE Nothing

----------------------------------------------------------------------------
(* The events of a session.                                                *)

\* canvas points of button events: on the images of the disk the first two
\* span a 4 x 4 pixel rectangle at the fit-to-window transform, the last
\* two lie outside the small images
Points == {<<597, 372>>, <<601, 376>>, <<510, 195>>, <<610, 395>>}
CornerPoints == {<<597, 372>>, <<601, 376>>}
PressPoints == {<<597, 372>>}
DragStarts == {<<597, 372>>, <<510, 195>>}

\* release positions: from the press point (597, 372) drags of 2 and 3
\* canvas pixels, and one that ends left of and above the small image
ReleasePoints == {<<599, 374>>, <<600, 375>>, <<510, 195>>}

\* right-click positions: on a.jpg at the fit-to-window transform the image
\* points (97,197), (10,20) and (115,225)
ClickPoints == {<<597, 372>>, <<510, 195>>, <<615, 400>>}

\* pointer positions of zoom events: 90 pixels left of and 180 above the
\* centre of the canvas
ZoomPoints == {<<510, 195>>}

\* event.delta of wheel events, event.num of Button-4/5 events
WheelDeltas == {120, -120}
WheelButtons == {4, 5}

\* texts of the new-class entry
EntryTexts ==
    { <<"C","a","r">>, <<" ","c","a","r"," ">>, <<"d","o","g">>, <<" ">> }

ClassEvents ==
    \/ \E c \in Keys(class_names) : _on_class_selected(c)
    \/ \E t \in EntryTexts : _add_new_class(t)

WheelEvents ==
    \/ \E d \in WheelDeltas : _on_mousewheel(d)
    \/ \E d \in WheelDeltas : _on_shift_mousewheel(d)
    \/ \E n \in WheelButtons : _on_mousewheel_linux(n)
    \/ \E n \in WheelButtons : _on_shift_mousewheel_linux(n)
    \/ \E p \in ZoomPoints, d \in WheelDeltas : _on_ctrl_mousewheel(p[1], p[2], d)
    \/ \E p \in ZoomPoints, n \in WheelButtons : _on_ctrl_mousewheel_linux(p[1], p[2], n)
    \/ _do_redraw

MiddleEvents(pts) ==
    \/ \E p \in pts : on_middle_press(p[1], p[2])
    \/ \E p \in pts : on_middle_drag(p[1], p[2])
    \/ on_middle_release

ViewEvents(pts) == WheelEvents \/ MiddleEvents(pts)

DrawEvents(press, release, click) ==
    \/ \E p \in press : on_button_press(p[1], p[2])
    \/ \E p \in release : on_button_release(p[1], p[2])
    \/ \E p \in click : on_right_click(p[1], p[2])
    \/ undo_box

NavEvents(folders, ios) ==
    \/ \E io \in ios : next_image(io)
    \/ \E io \in ios : prev_image(io)
    \/ \E f \in folders, io \in ios : _open_folder(f, io)
    \/ \E io \in ios : _quit(io)

\* the whole program
Next ==
    \/ DeferredLoad
    \/ ClassEvents
    \/ ViewEvents(Points)
    \/ DrawEvents(Points, Points, Points)
    \/ NavEvents(Folders, IOOutcomes)

Spec == Init /\ [][Next]_vars

\* one image's viewport and box store: wheel panning, zoom and drawing; no
\* navigation, no class management
NextView ==
    DeferredLoad \/ WheelEvents \/ DrawEvents(DragStarts, Points, CornerPoints)

SpecView == Constructed({CleanDisk, HandWrittenDisk}, {"A"}) /\ [][NextView]_vars

\* the viewport across images and folders: wheel panning, zoom and
\* navigation on a disk that takes every write, no drawing
NextViewport ==
    DeferredLoad \/ WheelEvents \/ NavEvents({"A", "B", "C", "E"}, {"ok"})

SpecViewport ==
    Constructed({CleanDisk, HandWrittenDisk, LabelledDisk}, {"A"})
        /\ [][NextViewport]_vars

\* drawing, navigation and persistence at the fit-to-window transform, on
\* a disk that takes a write or refuses it
NextSession ==
    \/ DeferredLoad
    \/ DrawEvents(PressPoints, CornerPoints, CornerPoints)
    \/ NavEvents({"A", "B"}, {"ok", "fail_open"})

SpecSession ==
    Constructed({CleanDisk, HandWrittenDisk, LabelledDisk}, {"A"})
        /\ [][NextSession]_vars

\* the class registry across images and folders, on a disk that takes
\* every write
NextClasses == DeferredLoad \/ ClassEvents \/ NavEvents({"A", "B"}, {"ok"})

SpecClasses == Constructed(InitDisks, {"A", "B"}) /\ [][NextClasses]_vars

\* the same on disks without a classes.txt: every registry comes from the
\* default by add-class actions and placeholder synthesis, every classes.txt
\* from _save_classes_file
SpecRegistry ==
    Constructed({CleanDisk, ForeignDisk}, {"A"}) /\ [][NextClasses]_vars

\* drawing, deleting and navigation in one folder, on disks whose label
\* file of a.jpg was not written by this program
NextLabels ==
    \/ DeferredLoad
    \/ DrawEvents(PressPoints, ReleasePoints, ClickPoints)
    \/ NavEvents({"A"}, {"ok"})

SpecLabels ==
    Constructed({HandWrittenDisk, ImportedDisk}, {"A"}) /\ [][NextLabels]_vars

\* drawing and navigating in folder D, whose two images differ only in
\* their extension, after a start in folder A or D
NextStems ==
    \/ DeferredLoad
    \/ DrawEvents(PressPoints, CornerPoints, CornerPoints)
    \/ NavEvents({"D"}, {"ok"})

SpecStems == Constructed({CleanDisk}, {"A", "D"}) /\ [][NextStems]_vars

\* event.delta of <MouseWheel>: whole notches and, from a high-resolution
\* wheel or a touchpad, half notches
RawDeltas == {120, -120, 60, -60}

\* scrolling and shift-scrolling with raw deltas, and navigating, in folder A
NextWheel ==
    \/ DeferredLoad
    \/ \E d \in RawDeltas : _on_mousewheel(d)
    \/ \E d \in RawDeltas : _on_shift_mousewheel(d)
    \/ _do_redraw
    \/ NavEvents({"A"}, {"ok"})

SpecWheel ==
    Constructed({CleanDisk, HandWrittenDisk}, {"A"}) /\ [][NextWheel]_vars

\* panning, zooming and navigating in folder D, whose two images have the
\* same size, after a start in folder A or D
NextTwins == DeferredLoad \/ WheelEvents \/ NavEvents({"D"}, {"ok"})

SpecTwins == Constructed({CleanDisk}, {"A", "D"}) /\ [][NextTwins]_vars

\* panning, zooming and middle-button dragging on the first image of one
\* folder, with the Tk event loop running the idle callbacks it holds: an
\* after_idle callback is run once the event queue is empty, so _do_redraw
\* cannot stay scheduled for ever.  (on_middle_press keeps the offsets of
\* the press in pan_start across image loads, so with navigation the
\* offsets a drag can reach are unbounded.)
NextRedraw ==
    DeferredLoad \/ ViewEvents(CornerPoints)

\* the event loop takes one callback off its idle queue; in NextRedraw the
\* only step that does so is _do_redraw
IdleCallbackRuns ==
    /\ ~destroyed
    /\ idle_scheduled > 0
    /\ idle_scheduled' = idle_scheduled - 1

SpecRedraw ==
    /\ Constructed({CleanDisk, HandWrittenDisk}, {"A"})
    /\ [][NextRedraw]_vars
    /\ WF_idle_scheduled(IdleCallbackRuns)

----------------------------------------------------------------------------
(* The viewport.                                                           *)

\* an image is on display in a live window
ImageShown == original_image # None /\ ~destroyed

\* C1 as stated: in every reachable state, from construction on, zoom_index
\* is a valid index of the zoom table and scale equals
\* zoom_levels[zoom_index].
C1_ScaleIsZoomLevel ==
    /\ zoom_index \in 0..(Len(zoom_levels) - 1)
    /\ scale = ZoomLevel(zoom_index)

\* C1 amended: zoom_index is always a valid index of the zoom table; scale
\* equals zoom_levels[zoom_index] whenever an image is on display in a live
\* window; in the other states (before the first load, after a load that
\* found no decodable image) scale is either that level or the 1.0 that
\* construction and the reset of load_image set without touching zoom_index.
C1_ScaleIsZoomLevelWhenShown ==
    /\ zoom_index \in 0..(Len(zoom_levels) - 1)
    /\ ImageShown => scale = ZoomLevel(zoom_index)
    /\ scale \in {ZoomLevel(zoom_index), I2R(1)}

\* a zoom step on the second folder's image, whose fit scale is no zoom level
C1_Witness ==
    /\ ImageShown
    /\ image_folder = "B"
    /\ last \in {"_on_ctrl_mousewheel", "_on_ctrl_mousewheel_linux"}
    /\ zoom_index # FitTable[<<canvas_w, canvas_h>>, original_image[1]].zoom_index
    /\ scale = ZoomLevel(zoom_index)

----------------------------------------------------------------------------
(* The box store.                                                          *)

\* 0 <= x1 < x2 <= w and 0 <= y1 < y2 <= h
InBounds(b, w, h) ==
    /\ RLe(I2R(0), b[1]) /\ RLt(b[1], b[3]) /\ RLe(b[3], I2R(w))
    /\ RLe(I2R(0), b[2]) /\ RLt(b[2], b[4]) /\ RLe(b[4], I2R(h))

\* C2: the box a left-button release has just appended to the store
\* satisfies 0 <= x1 < x2 <= image_w and 0 <= y1 < y2 <= image_h, whatever
\* pan and zoom events preceded the drag.
C2_CommittedBoxInBounds ==
    last = "on_button_release" =>
        /\ boxes # <<>>
        /\ InBounds(boxes[Len(boxes)], img_width, img_height)

\* a box committed after a zoom step, from a drag that began left of and
\* above the image, so that the clamp made its corner
C2_Witness ==
    /\ last = "on_button_release"
    /\ view_events > 0
    /\ scale # I2R(1)
    /\ RLt(CanvasToImageAxis(start_x[1], offset_x, scale), I2R(0))
    /\ RLt(CanvasToImageAxis(start_y[1], offset_y, scale), I2R(0))
    /\ boxes[Len(boxes)][1] = I2R(0)
    /\ boxes[Len(boxes)][2] = I2R(0)

\* C3 as stated: in every reachable state every box of the store, drawn or
\* loaded from a label file, has x1 < x2, y1 < y2 and lies within
\* [0, img_width] x [0, img_height] of the loaded image.
C3_StoredBoxesInBounds ==
    \A i \in DOMAIN boxes : InBounds(boxes[i], img_width, img_height)

----------------------------------------------------------------------------
(* The normalized round trip.                                              *)

\* the image of self.index is the one on display
CurrentImageShown ==
    /\ ImageShown
    /\ images # <<>>
    /\ index \in 0..(Len(images) - 1)
    /\ original_image = Some(<<image_folder, images[index + 1]>>)

\* the store load_image would build for the current image right after
\* save_boxes has written the current store
RoundTrip ==
    _load_existing_labels(images[index + 1], labels_dir, class_names,
                          save_boxes("ok").labels, img_width, img_height).boxes

\* |a - b| <= 1e-6 * dim
CloseTo(a, b, dim) == RLe(RAbs(RSub(a, b)), Rat(dim, 1000000))

\* box b is at the pixel corners (x1, y1, x2, y2)
AtCorners(b, x1, y1, x2, y2) ==
    /\ b[1] = I2R(x1) /\ b[2] = I2R(y1) /\ b[3] = I2R(x2) /\ b[4] = I2R(y2)

\* C4: for every store of in-bounds boxes, save_boxes followed by a load of
\* the same image gives the same number of boxes in the same order with the
\* same class IDs, each coordinate within 1e-6 of the image dimension of
\* its axis; the box (10,20,110,220) on the 200 x 400 image is stored as
\* 0.300000 0.300000 0.500000 0.500000.
C4_NormalizedRoundTrip ==
    (/\ CurrentImageShown
     /\ \A i \in DOMAIN boxes : InBounds(boxes[i], img_width, img_height))
    => LET r == RoundTrip
           lines == save_boxes("ok").labels[<<labels_dir, Stems[images[index + 1]]>>]
       IN  /\ Len(r) = Len(boxes)
           /\ \A i \in DOMAIN boxes :
                 /\ r[i][5] = boxes[i][5]
                 /\ CloseTo(r[i][1], boxes[i][1], img_width)
                 /\ CloseTo(r[i][2], boxes[i][2], img_height)
                 /\ CloseTo(r[i][3], boxes[i][3], img_width)
                 /\ CloseTo(r[i][4], boxes[i][4], img_height)
                 /\ (/\ img_width = 200 /\ img_height = 400
                     /\ AtCorners(boxes[i], 10, 20, 110, 220))
                    => lines[i] = <<IntTok(boxes[i][5]), DecTok(300000),
                                    DecTok(300000), DecTok(500000),
                                    DecTok(500000)>>

\* a store the session has saved and loaded again: the image of folder B
\* shown at scale 0.67 holds a box with fractional pixel corners that came
\* back from the label file the session wrote for it
C4_Witness ==
    /\ CurrentImageShown
    /\ last = "_open_folder"
    /\ image_folder = "B"
    /\ boxes # <<>>
    /\ \A i \in DOMAIN boxes : InBounds(boxes[i], img_width, img_height)
    /\ boxes[1][1][2] # 1
    /\ <<labels_dir, Stems[images[index + 1]]>> \in DOMAIN fs_labels
    /\ boxes = _load_existing_labels(images[index + 1], labels_dir, class_names,
                                     fs_labels, img_width, img_height).boxes

----------------------------------------------------------------------------
(* Resuming.                                                               *)

\* the positions (from 0) of the images of imgs without a label file
Unlabelled(imgs, dir, lab) ==
    {i \in 0..(Len(imgs) - 1) : <<dir, Stems[imgs[i + 1]]>> \notin DOMAIN lab}

\* the smallest position without a label file, the last position when
\* there is none
FirstUnlabelledOrLast(imgs, dir, lab) ==
    LET U == Unlabelled(imgs, dir, lab)
    IN  IF U = {} THEN Len(imgs) - 1
        ELSE CHOOSE i \in U : \A j \in U : i <= j

\* C5: the resume index computed at folder open is the smallest index of
\* the image list whose image has no label file, and the last index
\* (len(images) - 1, never len(images)) when every image has one.  It is
\* what _find_resume_index answers for every folder on every disk the
\* session produces, what construction leaves in index, and what
\* _open_folder hands to load_image (which then moves past images it cannot
\* decode).
C5_ResumeIndex ==
    /\ \A f \in Folders :
          _find_resume_index(ScanImages(f), f, fs_labels)
              = FirstUnlabelledOrLast(ScanImages(f), f, fs_labels)
    /\ last = "__init__" =>
          index = FirstUnlabelledOrLast(images, labels_dir, fs_labels)
    /\ last = "_open_folder" =>
          index = IF images = <<>>
                  THEN FirstUnlabelledOrLast(images, labels_dir, fs_labels)
                  ELSE FirstLoadable(
                           FirstUnlabelledOrLast(images, labels_dir, fs_labels),
                           images, image_folder)

\* folder B opened with its only image labelled: the session resumes at
\* index 0 = len(images) - 1 and stays open, while in folder A the first
\* image without a label file is the second one
C5_Witness ==
    /\ last = "_open_folder"
    /\ ~destroyed
    /\ image_folder = "B"
    /\ Unlabelled(images, labels_dir, fs_labels) = {}
    /\ index = Len(images) - 1
    /\ Unlabelled(ScanImages("A"), "A", fs_labels) = {1, 2}
    /\ _find_resume_index(ScanImages("A"), "A", fs_labels) = 1

----------------------------------------------------------------------------
(* The class registry.                                                     *)

\* a registry as a mapping: its set of <<ID, name>> pairs
Mapping(cn) == {<<cn[i].id, cn[i].name>> : i \in DOMAIN cn}

\* the registry _init_folder reads from the classes.txt that
\* _save_classes_file writes for registry cn
ReadBack(cn) == ReadClassLines(ClassLines(cn), 1, <<>>)

\* C6 as stated: writing the registry with _save_classes_file and reading
\* classes.txt back in _init_folder yields the same ID-to-name mapping, for
\* every registry reachable by add-class actions and placeholder synthesis.
C6_ClassIdsStable == Mapping(ReadBack(class_names)) = Mapping(class_names)

\* the new-name path of _add_new_class is being taken with entry text t
AddsNewName(t) ==
    /\ _add_new_class(t)
    /\ Strip(t) # <<>>
    /\ \A i \in DOMAIN class_names : Lower(class_names[i].name) # Lower(Strip(t))

\* the duplicate-name path of _add_new_class is being taken with entry text t
AddsExistingName(t) ==
    /\ _add_new_class(t)
    /\ Strip(t) # <<>>
    /\ \E i \in DOMAIN class_names : Lower(class_names[i].name) = Lower(Strip(t))

C8_AddExistingSelects ==
    [][\A t \in EntryTexts :
          AddsExistingName(t) =>
              /\ \E i \in DOMAIN class_names :
                    /\ Lower(class_names[i].name) = Lower(Strip(t))
                    /\ \A j \in 1..(i - 1) :
                          Lower(class_names[j].name) # Lower(Strip(t))
                    /\ active_class' = class_names[i].id
              /\ class_names' = class_names
              /\ fs_classes' = fs_classes
      ]_vars

\* "car" was added at ID 1 and another class at ID 2; adding the name again
\* in another case has made ID 1 the active class
C8_Witness ==
    /\ last = "_add_new_class"
    /\ Len(class_names) = 3
    /\ class_names[2] = [id |-> 1, name |-> <<"c","a","r">>]
    /\ class_names[3].id = 2
    /\ active_class = 1

\* C9 as stated: in every reachable state the registry maps only
\* non-negative IDs and no two IDs have names that are equal
\* case-insensitively.
C9_RegistryWellFormed ==
    /\ \A k \in Keys(class_names) : k >= 0
    /\ \A i, j \in DOMAIN class_names :
          i # j => Lower(class_names[i].name) # Lower(class_names[j].name)

----------------------------------------------------------------------------
(* Saving before the image changes.                                        *)

\* C10 as stated: whenever next_image, prev_image or _open_folder makes
\* another image (or another folder) the current one, the label file of
\* the image left behind holds exactly the boxes of its store, one line
\* per box in store order.
C10_SavedBeforeDiscard ==
    [][(/\ last' \in {"next_image", "prev_image", "_open_folder"}
        /\ images # <<>>
        /\ index \in 0..(Len(images) - 1)
        /\ (index' # index \/ image_folder' # image_folder))
       => LET path == <<labels_dir, Stems[images[index + 1]]>>
          IN  /\ path \in DOMAIN fs_labels'
              /\ fs_labels'[path] = SaveLines(boxes, img_width, img_height)
      ]_vars

----------------------------------------------------------------------------
(* Loading a label file.                                                   *)

\* the handlers that end in a load_image
Loaders == {"load_image", "next_image", "prev_image", "_open_folder"}

\* the lines of a label file that split into exactly 5 tokens, in file order
FiveTokenLines(lines) == SelectSeq(lines, LAMBDA l : Len(l) = 5)

\* C11 as stated: right after an image is loaded whose label file exists,
\* the store holds exactly one box per line of that file that splits into
\* exactly 5 tokens, in file order; a malformed line costs only itself and
\* never the well-formed lines after it.
C11_OneBoxPerFiveTokenLine ==
    (/\ last \in Loaders
     /\ CurrentImageShown
     /\ <<labels_dir, Stems[images[index + 1]]>> \in DOMAIN fs_labels)
    => LET five == FiveTokenLines(fs_labels[<<labels_dir, Stems[images[index + 1]]>>])
       IN  /\ Len(boxes) = Len(five)
           /\ \A k \in DOMAIN five : CanInt(five[k][1]) => boxes[k][5] = five[k][1].v

----------------------------------------------------------------------------
(* Deleting and undoing boxes.                                             *)

\* C12: a right-click at a canvas point removes exactly one box, the one at
\* the lowest position of the store among those that contain the image
\* point under the pointer (edges included); the other boxes keep their
\* values and their order.  When no box contains the point the store is
\* unchanged.
C12_RightClickRemovesFirstHit ==
    [][\A p \in ClickPoints :
          on_right_click(p[1], p[2]) =>
              LET px == CanvasToImageAxis(p[1], offset_x, scale)
                  py == CanvasToImageAxis(p[2], offset_y, scale)
                  hits == {i \in DOMAIN boxes :
                              /\ RLe(boxes[i][1], px) /\ RLe(px, boxes[i][3])
                              /\ RLe(boxes[i][2], py) /\ RLe(py, boxes[i][4])}
              IN  IF hits = {}
                  THEN boxes' = boxes
                  ELSE \E i \in hits :
                          /\ \A j \in hits : i <= j
                          /\ Len(boxes') = Len(boxes) - 1
                          /\ \A k \in 1..(i - 1) : boxes'[k] = boxes[k]
                          /\ \A k \in i..(Len(boxes) - 1) : boxes'[k] = boxes[k + 1]
      ]_vars

\* a.jpg was loaded with two overlapping boxes, classes 0 and -1, in that
\* order; a right-click at a point inside both has removed the first and
\* left the second
C12_Witness ==
    /\ last = "on_right_click"
    /\ CurrentImageShown
    /\ index = 0
    /\ fs_labels[<<"A", <<"a">>>>] = <<ExampleLine, ShortLine, ForeignLine>>
    /\ Len(boxes) = 1
    /\ boxes[1][5] = -1
    /\ Contains(boxes[1], CanvasToImageAxis(597, offset_x, scale),
                CanvasToImageAxis(372, offset_y, scale))

\* C13: undo removes exactly the last box of the store and nothing else,
\* and does nothing on an empty store.  Undo never puts a box back: the
\* store after an undo is a prefix of the store before it, and the store
\* grows only by a committed drag or by loading an image, so no sequence of
\* undo actions brings back a box that a right-click (or an undo) removed.
C13_UndoRemovesLast ==
    [][(undo_box =>
            IF boxes = <<>>
            THEN boxes' = boxes
            ELSE /\ Len(boxes') = Len(boxes) - 1
                 /\ \A k \in 1..(Len(boxes) - 1) : boxes'[k] = boxes[k])
       /\ ((\/ Len(boxes') > Len(boxes)
            \/ \E k \in DOMAIN boxes' : \A j \in DOMAIN boxes : boxes'[k] # boxes[j])
           => (last' \in Loaders \cup {"on_button_release"}))
      ]_vars

\* a.jpg was loaded with two boxes, classes 0 and -1; undo has removed the
\* second and kept the first
C13_Witness ==
    /\ last = "undo_box"
    /\ CurrentImageShown
    /\ index = 0
    /\ fs_labels[<<"A", <<"a">>>>] = <<ExampleLine, ShortLine, ForeignLine>>
    /\ Len(boxes) = 1
    /\ boxes[1][5] = 0

----------------------------------------------------------------------------
(* Drags too small to be a box.                                            *)

\* the extent, in image pixels, of a drag from canvas coordinate s to e on
\* one axis after conversion and clamping to [0, size]
ClampedExtent(s, e, offset, sc, size) ==
    LET a == RDiv(RSub(I2R(s), offset), sc)
        b == RDiv(RSub(I2R(e), offset), sc)
    IN  RSub(RMin(I2R(size), RMax(a, b)), RMax(I2R(0), RMin(a, b)))

\* C14: a left-button release that ends a drag whose rectangle, after
\* conversion to image pixels and clamping to the image, is narrower or
\* shorter than 3 pixels changes neither the store nor anything else of
\* the session (no box, no write, no termination); hence the box a release
\* has committed is at least 3 pixels wide and high.
C14_SmallDragRejected ==
    /\ [][\A p \in ReleasePoints :
             (/\ on_button_release(p[1], p[2])
              /\ start_x # None /\ start_y # None
              /\ \/ RLt(ClampedExtent(start_x[1], p[1], offset_x, scale, img_width),
                         I2R(3))
                 \/ RLt(ClampedExtent(start_y[1], p[2], offset_y, scale, img_height),
                         I2R(3)))
             => /\ boxes' = boxes
                /\ fs_labels' = fs_labels
                /\ destroyed' = destroyed
         ]_vars
    /\ [](last = "on_button_release" =>
             /\ boxes # <<>>
             /\ RLe(I2R(3), RSub(boxes[Len(boxes)][3], boxes[Len(boxes)][1]))
             /\ RLe(I2R(3), RSub(boxes[Len(boxes)][4], boxes[Len(boxes)][2])))

\* the button is down on the 6 x 6 image with an empty store: releasing it
\* 2 pixels away gives a 2 x 2 rectangle, releasing it left of and above the
\* image one that the clamp reduces to nothing, releasing it 3 pixels away
\* a box of exactly 3 x 3
C14_Witness ==
    /\ last = "on_button_press"
    /\ CurrentImageShown
    /\ img_width = 6
    /\ boxes = <<>>
    /\ ClampedExtent(start_x[1], 599, offset_x, scale, img_width) = I2R(2)
    /\ ClampedExtent(start_x[1], 600, offset_x, scale, img_width) = I2R(3)
    /\ ClampedExtent(start_x[1], 510, offset_x, scale, img_width) = I2R(0)
    /\ RLt(I2R(3), RAbs(RSub(CanvasToImageAxis(510, offset_x, scale),
                             CanvasToImageAxis(start_x[1], offset_x, scale))))

----------------------------------------------------------------------------
(* Zooming about the pointer.                                              *)

\* a zoom handler runs with the pointer at canvas point p
ZoomsAt(p) ==
    \/ \E d \in WheelDeltas : _on_ctrl_mousewheel(p[1], p[2], d)
    \/ \E n \in WheelButtons : _on_ctrl_mousewheel_linux(p[1], p[2], n)

\* C15: a zoom step is anchored at the pointer: the image point under the
\* pointer (cx, cy) before the step is mapped by the transform after the
\* step to a canvas point less than one pixel from (cx, cy) on each axis,
\* while the scale moves to the neighbouring zoom level.
C15_ZoomAnchoredAtPointer ==
    [][\A p \in ZoomPoints :
          (ZoomsAt(p) /\ zoom_index' # zoom_index) =>
              LET ix == RDiv(RSub(I2R(p[1]), offset_x), scale)
                  iy == RDiv(RSub(I2R(p[2]), offset_y), scale)
              IN  /\ zoom_index' \in {zoom_index - 1, zoom_index + 1}
                  /\ scale' = ZoomLevel(zoom_index')
                  /\ RLt(RAbs(RSub(RAdd(RMul(ix, scale'), offset_x'), I2R(p[1]))),
                         I2R(1))
                  /\ RLt(RAbs(RSub(RAdd(RMul(iy, scale'), offset_y'), I2R(p[2]))),
                         I2R(1))
      ]_vars

\* a zoom step on the fitted image of folder B with the pointer away from
\* the centre of the canvas: the image point under the pointer has stayed,
\* the image point that was under the centre has moved by more than a pixel
C15_Witness ==
    /\ last \in {"_on_ctrl_mousewheel", "_on_ctrl_mousewheel_linux"}
    /\ ImageShown
    /\ image_folder = "B"
    /\ \E p \in ZoomPoints :
          LET old == FitTable[<<canvas_w, canvas_h>>, original_image[1]]
              ix == RDiv(RSub(I2R(p[1]), old.offset_x), old.scale)
              cx == RDiv(RSub(I2R(canvas_w \div 2), old.offset_x), old.scale)
          IN  /\ scale # old.scale
              /\ RAdd(RMul(ix, scale), offset_x) = I2R(p[1])
              /\ RLt(I2R(1), RAbs(RSub(RAdd(RMul(cx, scale), offset_x),
                                       I2R(canvas_w \div 2))))

----------------------------------------------------------------------------
(* The transform after a load.                                             *)

\* |zoom_levels[i] - target|
LevelDistance(i, target) == RAbs(RSub(ZoomLevel(i), target))

\* C16: right after every load that put an image on display, zoom_index is
\* the index of the zoom level nearest to
\* min(canvas_w / img_w, canvas_h / img_h, 1.0), the lowest such index when
\* two levels are equally near; scale is that level and does not exceed
\* 1.0; the offsets are (canvas_dim - img_dim * scale) / 2 on each axis.
C16_FitAfterLoad ==
    (last \in Loaders /\ CurrentImageShown) =>
        LET fit_scale == RMin(RMin(Rat(canvas_w, img_width),
                                   Rat(canvas_h, img_height)), I2R(1))
            levels == 0..(Len(zoom_levels) - 1)
        IN  /\ zoom_index \in levels
            /\ \A i \in levels :
                  /\ RLe(LevelDistance(zoom_index, fit_scale),
                         LevelDistance(i, fit_scale))
                  /\ RLe(LevelDistance(i, fit_scale),
                         LevelDistance(zoom_index, fit_scale)) => zoom_index <= i
            /\ scale = ZoomLevel(zoom_index)
            /\ RLe(scale, I2R(1))
            /\ RMul(offset_x, I2R(2))
                   = RSub(I2R(canvas_w), RMul(I2R(img_width), scale))
            /\ RMul(offset_y, I2R(2))
                   = RSub(I2R(canvas_h), RMul(I2R(img_height), scale))

\* the 9600 x 6000 image of folder C has just been loaded on the
\* 1200 x 750 canvas: its fit scale 0.125 is as far from 0.1 as from 0.15,
\* and the lower level 0.1 was taken
C16_Witness ==
    /\ last \in Loaders
    /\ CurrentImageShown
    /\ img_width = 9600
    /\ Rat(canvas_w, img_width) = Rat(1, 8)
    /\ LevelDistance(2, Rat(1, 8)) = LevelDistance(3, Rat(1, 8))
    /\ zoom_index = 2
    /\ scale = Rat(1, 10)
    /\ offset_x = I2R(120)

----------------------------------------------------------------------------
(* Images that cannot be decoded.                                          *)

\* the value of self.index with which the step that has just run entered
\* load_image
LoadStart ==
    CASE last' = "next_image" -> index + 1
      [] last' = "prev_image" -> index - 1
      [] last' = "_open_folder" ->
             FirstUnlabelledOrLast(images', labels_dir', fs_labels')
      [] OTHER -> index

\* image k (from 0) of the list the step leaves cannot be decoded
Undecodable(k) == ~Decode(image_folder', images'[k + 1]).ok

\* C17: when load_image is entered at an image i that cannot be decoded,
\* no label file appears, disappears or changes for i or for any image
\* skipped after it; if a decodable image follows, the step ends with the
\* first such image j > i on display, index = j, the store equal to what
\* its label file holds (empty without one), the dimensions those of j and
\* the transform its fit; if none follows, the step ends with index at the
\* end of the list, an empty store and the window destroyed, as when the
\* list is completed.
C17_DecodeFailureSkips ==
    [][(/\ last' \in Loaders
        /\ images' # <<>>
        /\ LoadStart \in 0..(Len(images') - 1)
        /\ Undecodable(LoadStart))
       => LET later == {j \in (LoadStart + 1)..(Len(images') - 1) : ~Undecodable(j)}
              skipped == LoadStart..(index' - 1)
          IN  /\ index' > LoadStart
              /\ \A k \in skipped :
                    LET path == <<labels_dir', Stems[images'[k + 1]]>>
                    IN  /\ Undecodable(k)
                        /\ path \in DOMAIN fs_labels' <=> path \in DOMAIN fs_labels
                        /\ path \in DOMAIN fs_labels => fs_labels'[path] = fs_labels[path]
              /\ IF later # {}
                 THEN LET name == images'[index' + 1]
                          d == Decode(image_folder', name)
                          fit == FitTable[<<canvas_w, canvas_h>>, <<image_folder', name>>]
                      IN  /\ index' \in later
                          /\ \A j \in later : index' <= j
                          /\ ~destroyed'
                          /\ original_image' = Some(<<image_folder', name>>)
                          /\ img_width' = d.w /\ img_height' = d.h
                          /\ boxes' = _load_existing_labels(name, labels_dir',
                                           class_names, fs_labels', d.w, d.h).boxes
                          /\ <<scale', offset_x', offset_y', zoom_index'>>
                                = <<fit.scale, fit.offset_x, fit.offset_y, fit.zoom_index>>
                 ELSE /\ index' = Len(images')
                      /\ destroyed'
                      /\ boxes' = <<>>
      ]_vars

\* folder C was opened: its first image x.jpg cannot be decoded, has no
\* label file, and the second image is on display
C17_Witness ==
    /\ last = "_open_folder"
    /\ CurrentImageShown
    /\ image_folder = "C"
    /\ index = 1
    /\ ~Decode(image_folder, images[1]).ok
    /\ <<labels_dir, Stems[images[1]]>> \notin DOMAIN fs_labels
    /\ img_width = 9600

----------------------------------------------------------------------------
(* Quit.                                                                   *)

\* C18: a quit request attempts the final save and then destroys the
\* window, whether the save succeeded or raised; the store is not touched,
\* and when the save succeeded the label file of the current image holds
\* the store, one line per box, at teardown.
C18_QuitAlwaysTearsDown ==
    [][\A io \in {"ok", "fail_open"} :
          _quit(io) =>
              /\ destroyed'
              /\ boxes' = boxes
              /\ (io = "ok" /\ ~save_boxes(io).raised /\ images # <<>>) =>
                    LET path == <<labels_dir, Stems[images[index + 1]]>>
                    IN  /\ path \in DOMAIN fs_labels'
                        /\ fs_labels'[path] = SaveLines(boxes', img_width', img_height')
              /\ save_boxes(io).raised => fs_labels' = save_boxes(io).labels
      ]_vars

\* the window was torn down by a quit whose save failed: the store holds a
\* box and the image has no label file
C18_Witness ==
    /\ last = "_quit"
    /\ destroyed
    /\ boxes # <<>>
    /\ images # <<>>
    /\ <<labels_dir, Stems[images[index + 1]]>> \notin DOMAIN fs_labels

----------------------------------------------------------------------------
(* Completion.                                                             *)

\* load_image found the index past the end of a non-empty image list,
\* reported "All images labeled!" and destroyed the window
CompletionReported ==
    /\ destroyed
    /\ last \in Loaders
    /\ images # <<>>
    /\ index >= Len(images)

\* C19 as stated: whenever the session has terminated by reporting
\* completion, every image of the image list has a label file in the
\* labels directory.
C19_AllLabelledAtCompletion ==
    CompletionReported =>
        \A k \in DOMAIN images : <<labels_dir, Stems[images[k]]>> \in DOMAIN fs_labels

----------------------------------------------------------------------------
(* Redraw coalescing.                                                      *)

\* C20: at most one idle callback _do_redraw is scheduled at any time and
\* _redraw_pending is true exactly when one is scheduled and has not run;
\* a handler that requests a redraw while one is pending schedules nothing,
\* and the callback, when it runs, is the only one scheduled, redisplays
\* once and leaves none scheduled and the flag false.
C20_RedrawCoalesced ==
    /\ [](/\ idle_scheduled \in {0, 1}
          /\ _redraw_pending <=> idle_scheduled = 1)
    /\ [][/\ _redraw_pending => idle_scheduled' <= idle_scheduled
          /\ idle_scheduled' > idle_scheduled =>
                (~_redraw_pending /\ _redraw_pending' /\ idle_scheduled' = 1)
          /\ _do_redraw =>
                /\ idle_scheduled = 1 /\ idle_scheduled' = 0
                /\ ~_redraw_pending'
                /\ _cached_scale' = Some(CacheKey(canvas_w, canvas_h, scale, offset_x,
                                                  offset_y, img_width, img_height))
      ]_vars

\* a wheel event has changed the transform and requested a redraw: the
\* flag is set, one callback is scheduled, and the display still shows the
\* transform from before the event
C20_Witness ==
    /\ ImageShown
    /\ last \in {"_on_mousewheel", "_on_shift_mousewheel", "_on_mousewheel_linux",
                  "_on_shift_mousewheel_linux", "_on_ctrl_mousewheel",
                  "_on_ctrl_mousewheel_linux"}
    /\ view_events = 1
    /\ _redraw_pending
    /\ idle_scheduled = 1
    /\ _cached_scale # Some(CacheKey(canvas_w, canvas_h, scale, offset_x,
                                     offset_y, img_width, img_height))

----------------------------------------------------------------------------
(* What a coalesced redraw renders.                                        *)

\* the render cache holds the key of the current transform
RenderedCurrent ==
    _cached_scale = Some(CacheKey(canvas_w, canvas_h, scale, offset_x, offset_y,
                                  img_width, img_height))

\* C21: once a pan, zoom or middle-drag event has requested a redraw, and
\* given that the idle callback is run, a state follows (unless the window
\* is destroyed first) in which no redraw is pending and the display was
\* rendered for the scale and offsets the last event left; the callback
\* itself changes neither scale nor offsets nor zoom_index, so these are the
\* values the events alone produced.
C21_RedrawFollowsBurst ==
    /\ _redraw_pending ~> (destroyed \/ (~_redraw_pending /\ RenderedCurrent))
    /\ [][_do_redraw => UNCHANGED viewVars]_vars

\* the idle callback has run after a wheel event before the first load and
\* another event on the loaded image: nothing is pending and the display
\* was rendered for a transform that is no longer the fit
C21_Witness ==
    /\ last = "_do_redraw"
    /\ ImageShown
    /\ early_events = 1
    /\ view_events = 1
    /\ fs_labels = <<>>
    /\ ~_redraw_pending
    /\ RenderedCurrent
    /\ <<offset_x, offset_y>>
          # <<FitTable[<<canvas_w, canvas_h>>, original_image[1]].offset_x,
              FitTable[<<canvas_w, canvas_h>>, original_image[1]].offset_y>>

----------------------------------------------------------------------------
(* The render cache.                                                       *)

\* the handlers that end in display_image
Displayers == {"_do_redraw", "on_button_release", "on_right_click", "undo_box"}

\* the last handler has loaded an image (load_image got as far as its
\* display_image)
ImageLoaded == last \in Loaders /\ images # <<>> /\ ~destroyed

\* the cached bitmap was made from the loaded image, cropped and scaled by
\* the cached key
BitmapOfKey ==
    _cached_tk_image # None =>
        /\ _cached_scale # None
        /\ _cached_tk_image[1].image = original_image
        /\ _cached_tk_image[1].key = _cached_scale[1]

\* C22: in every reachable state a cached bitmap was made from the image
\* that is loaded now, with the scale and crop rectangle of the cached key;
\* every handler that ends in display_image leaves the cached key equal to
\* the key of the transform it displays, so a bitmap it reused is the one a
\* recomputation would have produced; and every load of an image leaves a
\* bitmap of that image, also when the image before it had the same size
\* and so the same key.
C22_CacheNeverStale ==
    /\ BitmapOfKey
    /\ (last \in Displayers \/ ImageLoaded) => RenderedCurrent
    /\ ImageLoaded =>
          (/\ _cached_tk_image # None
           /\ _cached_tk_image[1].image = original_image)

\* q.png was loaded after q.jpg, which has the same size and the same fit,
\* and then panned sideways: the idle callback found the key unchanged
\* (the crop rectangle is clamped to the image) and reused the bitmap, which
\* is the one made of q.png
C22_Witness ==
    /\ last = "_do_redraw"
    /\ ~destroyed
    /\ original_image = Some(<<"D", q_png>>)
    /\ offset_x # FitTable[<<canvas_w, canvas_h>>, <<"D", q_png>>].offset_x
    /\ _cached_scale
          = Some(CacheKey(canvas_w, canvas_h,
                          FitTable[<<canvas_w, canvas_h>>, <<"D", q_jpg>>].scale,
                          FitTable[<<canvas_w, canvas_h>>, <<"D", q_jpg>>].offset_x,
                          FitTable[<<canvas_w, canvas_h>>, <<"D", q_jpg>>].offset_y,
                          200, 400))
    /\ _cached_tk_image # None
    /\ _cached_tk_image[1].image = original_image

----------------------------------------------------------------------------
(* Wheel panning.                                                          *)

\* C23 as stated: on the path that divides the raw delta by 120, a plain
\* scroll changes offset_y and a shift-scroll offset_x and nothing else of
\* offsets, scale, zoom_index and box store, and the event with the
\* opposite raw delta undoes the move: what it adds to the offset the step
\* has left gives the offset the step started from, for every raw delta.
C23_WheelPanSymmetric ==
    [][\A d \in RawDeltas :
          /\ _on_mousewheel(d) =>
                (/\ UNCHANGED <<offset_x, scale, zoom_index, boxes>>
                 /\ RAdd(offset_y', I2R(WheelStep(-d))) = offset_y)
          /\ _on_shift_mousewheel(d) =>
                (/\ UNCHANGED <<offset_y, scale, zoom_index, boxes>>
                 /\ RAdd(offset_x', I2R(WheelStep(-d))) = offset_x)]_vars

----------------------------------------------------------------------------
(* The fit and the canvas.                                                 *)

\* C24 as stated: right after an image is loaded and fitted, the image at
\* the chosen scale is no wider and no higher than the canvas, and both
\* centred offsets are non-negative.
C24_FitWithinCanvas ==
    ImageLoaded =>
        /\ RLe(RMul(I2R(img_width), scale), I2R(canvas_w))
        /\ RLe(RMul(I2R(img_height), scale), I2R(canvas_h))
        /\ RLe(I2R(0), offset_x)
        /\ RLe(I2R(0), offset_y)

----------------------------------------------------------------------------
(* Class IDs and the registry.                                             *)

\* C25 as stated: in every reachable state the active class ID and the
\* class ID of every box of the store are keys of the class registry.
C25_ClassIdsRegistered ==
    /\ active_class \in Keys(class_names)
    /\ \A i \in DOMAIN boxes : boxes[i][5] \in Keys(class_names)

----------------------------------------------------------------------------
(* A drag while the transform changes.                                     *)

\* the handlers that change scale or offsets from the wheel
WheelHandlers ==
    {"_on_mousewheel", "_on_shift_mousewheel", "_on_ctrl_mousewheel",
     "_on_mousewheel_linux", "_on_shift_mousewheel_linux",
     "_on_ctrl_mousewheel_linux"}

\* the fit load_image gave the image on display
FitShown == FitTable[<<canvas_w, canvas_h>>, original_image[1]]

\* the corners on one axis of the box between image point i1 and image
\* point i2, clamped to [0, size]
CornersBetween(i1, i2, size) ==
    <<RMax(I2R(0), RMin(i1, i2)), RMin(I2R(size), RMax(i1, i2))>>

\* the box between the image point that was under (start_x, start_y) when
\* scale and offsets were sc, ox, oy and the image point under (x, y) now
BoxBetween(sc, ox, oy, x, y) ==
    LET xs == CornersBetween(CanvasToImageAxis(start_x[1], ox, sc),
                             CanvasToImageAxis(x, offset_x, scale), img_width)
        ys == CornersBetween(CanvasToImageAxis(start_y[1], oy, sc),
                             CanvasToImageAxis(y, offset_y, scale), img_height)
    IN  <<xs[1], ys[1], xs[2], ys[2]>>

\* the corners of the box a step has appended to the store
Committed == SubSeq(boxes'[Len(boxes')], 1, 4)

\* C26 as stated: the box a left-button release commits lies between the
\* image point that was under the pointer at the press and the image point
\* under the pointer at the release, both clamped to the image: when
\* nothing has happened since the press, and when the one wheel pan or
\* zoom step since the image was loaded has happened between press and
\* release (so that the press met the transform of the fit).
C26_BoxBetweenPressAndRelease ==
    [][\A p \in Points :
          (on_button_release(p[1], p[2]) /\ Len(boxes') = Len(boxes) + 1) =>
              /\ last = "on_button_press" =>
                    Committed = BoxBetween(scale, offset_x, offset_y, p[1], p[2])
              /\ (last \in WheelHandlers /\ view_events = 1) =>
                    Committed = BoxBetween(FitShown.scale, FitShown.offset_x,
                                           FitShown.offset_y, p[1], p[2])]_vars

----------------------------------------------------------------------------
(* Label files of different images.                                        *)

\* the label file of image k (from 1) of the image list on disk lab: its
\* lines, or None when it does not exist.  It is what _load_existing_labels
\* reads for the image and what _find_resume_index tests.
LabelFileOf(lab, k) ==
    IF <<labels_dir, Stems[images[k]]>> \in DOMAIN lab
    THEN Some(lab[<<labels_dir, Stems[images[k]]>>])
    ELSE None

\* C27 as stated: a step that saves the boxes of the current image changes
\* the label file of no other image of the image list: neither the lines a
\* later load of that image reads nor whether the file exists, which is
\* what the resume scan tests.
C27_LabelsNotShared ==
    [][\A k \in DOMAIN images :
          (fs_labels' # fs_labels /\ k # index + 1) =>
              LabelFileOf(fs_labels', k) = LabelFileOf(fs_labels, k)]_vars

----------------------------------------------------------------------------
(* The index and the image list.                                           *)

\* C28 as stated: while the window has not been destroyed, in the state
\* every handler leaves, the index is a valid position of the image list:
\* 0 <= index < len(images).
C28_IndexValid ==
    ~destroyed => (0 <= index /\ index < Len(images))

====
